---- MODULE Spec2Model ----
(***************************************************************************)
(* The event registry of CADETProcess/common/event.py: EventHandler with   *)
(* its Event and Duration objects.  Times are modelled as integers (exact  *)
(* arithmetic); Python's % with a positive divisor is TLA+'s %.            *)
(*                                                                         *)
(* Event and Duration instances are Python objects: a removed object stays *)
(* alive while another object's _dependencies list refers to it.  The      *)
(* variable objects is the sequence of all instances created so far, an    *)
(* instance is identified by its index in it.                              *)
(***************************************************************************)
EXTENDS Integers, Sequences, FiniteSets, TLC

\* ------------------------------------------------------------------ bounds
MaxObjects == 3
MaxEdges == 1
MaxDurations == 1
MaxTimeEdges == 2

Range(s) == {s[k] : k \in DOMAIN s}

\* ------------------------------------------------------------------ inputs
NameOrder == <<"a", "b", "c">>
Names == Range(NameOrder)
Times == {-3, 2}
NewTimes == {13}
CycleTimes == {2, 10}
States == {1, 2}
InvalidPath == <<"unit", "nope">>
UnitPaths == {<<"unit", "flow">>, <<"unit", "temp">>}
ComponentPath == <<"unit", "c">>
SingleSegmentPath == <<"feed">>
ComponentIndices == {0, 1, 2}
SequenceStates == {<<1, 2>>, <<2, 1, 1>>}
IndependentLists == {<<n>> : n \in Names} \cup {<<n, m>> : n, m \in Names}
GivenFactors == {<<-1>>, <<1, -1>>}

\* ------------------------------------------------------------- the program
DefaultCycleTime == 10
None == -1
RecursionError == -1
NoObject == 0

\* The external process model: the parameter paths an event may target,
\* each split at its dots (Event.parameter_sequence).
section_dependent_parameters ==
    {<<"unit", "flow">>, <<"unit", "temp">>, <<"unit", "c">>, <<"feed">>}
InitialValue == 0

\* The paths at which the external model holds a sequence, one value per
\* component, and the sequence it holds at first.
sequence_parameters == {<<"unit", "c">>}
InitialSequence == <<0, 0>>

VARIABLES
    cycle_time,     \* EventHandler.cycle_time
    objects,        \* every Event / Duration instance created so far
    _events,        \* EventHandler._events: instances, in insertion order
    _durations,     \* EventHandler._durations
    __dict__,       \* the attributes add_event / add_duration set by name
    store           \* the external parameter store, by parameter path

vars == <<cycle_time, objects, _events, _durations, __dict__, store>>

\* The sum of xs, the factors left out.
RECURSIVE dot_unweighted(_, _)
dot_unweighted(xs, fs) ==
    IF xs = <<>> THEN 0
    ELSE xs[1] + dot_unweighted(Tail(xs), Tail(fs))

\* numpy.dot of two lists of equal length.
RECURSIVE dot(_, _)
dot(xs, fs) ==
    IF xs = <<>> THEN 0
    ELSE xs[1] * fs[1] + dot(Tail(xs), Tail(fs))

\* C's remainder, which has the sign of the dividend.
PyModTruncating(x, c) == IF x < 0 THEN -((-x) % c) ELSE x % c
PyMod(x, c) == x % c

isIndependent(objs, o) == Len(objs[o]._dependencies) = 0

\* Event.time (getter) read on instance o with the instances objs and the
\* cycle time c.  The getter recurses into every dependency; Python ends a
\* recursion that never returns with RecursionError, which is what a
\* dependency cycle reachable from o gives (visiting: the instances whose
\* getter is on the call stack).
RECURSIVE time_of(_, _, _, _)
time_of(objs, c, o, visiting) ==
    IF o \in visiting THEN RecursionError
    ELSE IF isIndependent(objs, o) THEN PyMod(objs[o]._time, c)
    ELSE LET deps == objs[o]._dependencies
             ts == [k \in DOMAIN deps |->
                      time_of(objs, c, deps[k], visiting \cup {o})]
         IN  IF \E k \in DOMAIN ts : ts[k] = RecursionError
             THEN RecursionError
             ELSE PyMod(dot(ts, objs[o]._factors), c)

time(o) == time_of(objects, cycle_time, o, {})

Raise(e) == [exc |-> e, val |-> <<>>]
Return(v) == [exc |-> "None", val |-> v]

\* The list as it is, not sorted.
insertion_order(objs, c, seq) == seq

\* A sort by time that puts an element before those of equal time.
RECURSIVE sorted_by_time_unstable(_, _, _)
sorted_by_time_unstable(objs, c, seq) ==
    IF seq = <<>> THEN <<>>
    ELSE LET n == Len(seq)
             x == seq[n]
             rest == sorted_by_time_unstable(objs, c, SubSeq(seq, 1, n - 1))
             keep == {k \in DOMAIN rest :
                        time_of(objs, c, rest[k], {}) < time_of(objs, c, x, {})}
             at == IF keep = {} THEN 0
                   ELSE CHOOSE k \in keep : \A j \in keep : j <= k
         IN  SubSeq(rest, 1, at) \o <<x>> \o SubSeq(rest, at + 1, Len(rest))

\* Python's sorted(seq, key=time): stable.
RECURSIVE sorted_by_time(_, _, _)
sorted_by_time(objs, c, seq) ==
    IF seq = <<>> THEN <<>>
    ELSE LET n == Len(seq)
             x == seq[n]
             rest == sorted_by_time(objs, c, SubSeq(seq, 1, n - 1))
             keep == {k \in DOMAIN rest :
                        time_of(objs, c, rest[k], {}) <= time_of(objs, c, x, {})}
             at == IF keep = {} THEN 0
                   ELSE CHOOSE k \in keep : \A j \in keep : j <= k
         IN  SubSeq(rest, 1, at) \o <<x>> \o SubSeq(rest, at + 1, Len(rest))

events_of(objs, c, evts) ==
    IF \E k \in DOMAIN evts : time_of(objs, c, evts[k], {}) = RecursionError
    THEN Raise("RecursionError")
    ELSE Return(sorted_by_time(objs, c, evts))

events == events_of(objects, cycle_time, _events)

durations == _durations

\* {**evts, **durs}: the last instance of a name wins, durations over events.
LastNamed(objs, seq, n) ==
    LET ks == {k \in DOMAIN seq : objs[seq[k]].name = n}
    IN  seq[CHOOSE k \in ks : \A j \in ks : j <= k]

events_dict_of(objs, c, evts, durs) ==
    LET ev == events_of(objs, c, evts)
    IN  IF ev.exc # "None" THEN Raise(ev.exc)
        ELSE LET en == {objs[o].name : o \in Range(ev.val)}
                 dn == {objs[o].name : o \in Range(durs)}
             IN  Return([n \in en \cup dn |->
                          IF n \in dn THEN LastNamed(objs, durs, n)
                          ELSE LastNamed(objs, ev.val, n)])

events_dict == events_dict_of(objects, cycle_time, _events, _durations)

\* list.sort() of a set of numbers: ascending.
RECURSIVE sort(_)
sort(S) ==
    IF S = {} THEN <<>>
    ELSE LET m == CHOOSE x \in S : \A y \in S : x <= y
         IN  <<m>> \o sort(S \ {m})

event_times ==
    IF events.exc # "None" THEN Raise(events.exc)
    ELSE Return(sort({time(o) : o \in Range(events.val)}))

section_times_unpadded ==
    IF event_times.exc # "None" THEN Raise(event_times.exc)
    ELSE IF Len(event_times.val) = 0 THEN Return(<<0, cycle_time>>)
    ELSE Return(event_times.val)

section_times ==
    IF event_times.exc # "None" THEN Raise(event_times.exc)
    ELSE IF Len(event_times.val) = 0 THEN Return(<<0, cycle_time>>)
    ELSE LET a == event_times.val
             b == IF a[1] # 0 THEN <<0>> \o a ELSE a
         IN  Return(IF b[Len(b)] # cycle_time THEN Append(b, cycle_time) ELSE b)

n_sections ==
    IF section_times.exc # "None" THEN Raise(section_times.exc)
    ELSE Return(Len(section_times.val) - 1)

event_parameters == {objects[o].parameter_path : o \in Range(_events)}

\* The events of seq that change parameter p, order kept.
RECURSIVE events_on(_, _)
events_on(seq, p) ==
    IF seq = <<>> THEN <<>>
    ELSE (IF objects[seq[1]].parameter_path = p THEN <<seq[1]>> ELSE <<>>)
         \o events_on(Tail(seq), p)

parameter_events ==
    IF events.exc # "None" THEN Raise(events.exc)
    ELSE Return([p \in event_parameters |-> events_on(events.val, p)])

Section(start, end, state) == [start |-> start, end |-> end, state |-> state]

\* The sections of one path, the wrap-around section holding the state of
\* the first event instead of the last.
timeline_wrap_first(evts) ==
    LET n == Len(evts)
        inner == [k \in 1..(n - 1) |->
                    Section(time(evts[k]), time(evts[k + 1]),
                            objects[evts[k]]._state)]
        last == <<Section(time(evts[n]), cycle_time, objects[evts[n]]._state)>>
        wrap == IF time(evts[1]) # 0
                THEN <<Section(0, time(evts[1]), objects[evts[1]]._state)>>
                ELSE <<>>
    IN  inner \o last \o wrap

\* The sections parameter_timelines adds for the events of one path, in the
\* order it adds them.
timeline(evts) ==
    LET n == Len(evts)
        inner == [k \in 1..(n - 1) |->
                    Section(time(evts[k]), time(evts[k + 1]),
                            objects[evts[k]]._state)]
        last == <<Section(time(evts[n]), cycle_time, objects[evts[n]]._state)>>
        wrap == IF time(evts[1]) # 0
                THEN <<Section(0, time(evts[1]), objects[evts[n]]._state)>>
                ELSE <<>>
    IN  inner \o last \o wrap

parameter_timelines ==
    IF parameter_events.exc # "None" THEN Raise(parameter_events.exc)
    ELSE Return([p \in DOMAIN parameter_events.val |->
                   timeline(parameter_events.val[p])])

\* Event.performer of a parameter path: the path without its last segment,
\* the path itself when it has one segment.
performer(path) ==
    IF Len(path) = 1 THEN path ELSE SubSeq(path, 1, Len(path) - 1)

event_performers ==
    IF events.exc # "None" THEN Raise(events.exc)
    ELSE Return({performer(objects[o].parameter_path) : o \in Range(events.val)})

\* param.rsplit('.', 1): two parts for a path of two segments or more, one
\* part for a path of one segment.
rsplit(path) ==
    IF Len(path) = 1 THEN <<path>>
    ELSE <<SubSeq(path, 1, Len(path) - 1), path[Len(path)]>>

\* EventHandler.performer_timelines: unpacking the one part of a path of one
\* segment into two names is a ValueError.
performer_timelines ==
    IF event_performers.exc # "None" THEN Raise(event_performers.exc)
    ELSE IF parameter_timelines.exc # "None" THEN Raise(parameter_timelines.exc)
    ELSE IF \E param \in DOMAIN parameter_timelines.val : Len(rsplit(param)) # 2
         THEN Raise("ValueError")
    ELSE LET tls == parameter_timelines.val
             of(perf) == {param \in DOMAIN tls : rsplit(param)[1] = perf}
         IN  Return([perf \in event_performers.val |->
                       [attr \in {rsplit(param)[2] : param \in of(perf)} |->
                           tls[perf \o <<attr>>]]])

NewEvent(name, path, ci, state, t) ==
    [cls |-> "Event", name |-> name, parameter_path |-> path,
     component_index |-> ci, _state |-> state, _time |-> t,
     _dependencies |-> <<>>, _factors |-> <<>>,
     start_event |-> NoObject, end_event |-> NoObject]

NewDuration(name, start, end, t, state) ==
    [cls |-> "Duration", name |-> name,
     parameter_path |-> objects[start].parameter_path,
     component_index |-> objects[start].component_index,
     _state |-> state, _time |-> t,
     _dependencies |-> <<>>, _factors |-> <<>>,
     start_event |-> start, end_event |-> end]

\* Python frees an instance nothing refers to any more: one that no registered
\* instance reaches through _dependencies, start_event or end_event.  Its
\* slot in objects is cleared.
Freed ==
    [cls |-> "None", name |-> "", parameter_path |-> <<>>,
     component_index |-> None, _state |-> InitialValue, _time |-> 0,
     _dependencies |-> <<>>, _factors |-> <<>>,
     start_event |-> NoObject, end_event |-> NoObject]

Referred(objs, o) ==
    Range(objs[o]._dependencies)
        \cup ({objs[o].start_event, objs[o].end_event} \ {NoObject})

RECURSIVE Reachable(_, _)
Reachable(objs, from) ==
    LET more == from \cup UNION {Referred(objs, o) : o \in from}
    IN  IF more = from THEN from ELSE Reachable(objs, more)

collect(objs, evts, durs) ==
    LET live == Reachable(objs, Range(evts) \cup Range(durs))
    IN  [o \in DOMAIN objs |-> IF o \in live THEN objs[o] ELSE Freed]

Init ==
    /\ cycle_time = DefaultCycleTime
    /\ objects = <<>>
    /\ _events = <<>>
    /\ _durations = <<>>
    /\ __dict__ = [n \in Names |-> NoObject]
    /\ store = [p \in section_dependent_parameters |->
                  IF p \in sequence_parameters THEN InitialSequence
                  ELSE InitialValue]

\* How Event.__init__ ends: the parameter_path setter, the component_index
\* setter (len() of what is stored at the path: a TypeError for a scalar),
\* the state setter (with a component_index it reads self.current_state,
\* an attribute no Event has: AttributeError, which its except clause does
\* not catch), the time setter.
Event_init_result(path, ci, is_number) ==
    IF path \notin section_dependent_parameters THEN "InvalidParameter"
    ELSE IF ci # None
         THEN IF path \notin sequence_parameters THEN "TypeError"
              ELSE IF ci > Len(store[path]) - 1 THEN "IndexOutOfRange"
              ELSE "AttributeError"
    ELSE IF ~is_number THEN "TypeError"
    ELSE "ok"

\* Event.__init__ got as far as the state setter, which writes the state
\* through to the store before the time setter runs.
Event_init_writes(path, ci) ==
    path \in section_dependent_parameters /\ ci = None

\* add_event without the look-up of the name.
add_event_result_unchecked(name, path, ci, is_number) ==
    LET ed == events_dict
    IN  IF ed.exc # "None" THEN ed.exc
        ELSE Event_init_result(path, ci, is_number)

\* How EventHandler.add_event ends.
add_event_result(name, path, ci, is_number) ==
    LET ed == events_dict
    IN  IF ed.exc # "None" THEN ed.exc
        ELSE IF name \in DOMAIN ed.val THEN "DuplicateName"
        ELSE Event_init_result(path, ci, is_number)

\* add_event leaving the external store as it is.
add_event_store_unwritten(name, path, state, ci, is_number) == store

\* The external store after add_event, however the call ends.
add_event_store(name, path, state, ci, is_number) ==
    IF add_event_result(name, path, ci, is_number)
           \notin {"RecursionError", "DuplicateName"}
       /\ Event_init_writes(path, ci)
    THEN [store EXCEPT ![path] = state]
    ELSE store

add_event(name, path, state, t, ci, is_number) ==
    LET res == add_event_result(name, path, ci, is_number)
        o == Len(objects) + 1
    IN  /\ store' = add_event_store(name, path, state, ci, is_number)
        /\ IF res = "ok"
           THEN /\ objects' = Append(objects,
                                NewEvent(name, path, ci, store'[path], t))
                /\ _events' = Append(_events, o)
                /\ __dict__' = [__dict__ EXCEPT ![name] = o]
           ELSE UNCHANGED <<objects, _events, __dict__>>
        /\ UNCHANGED <<cycle_time, _durations>>

\* Dropping the last element, whatever x is.
list_remove_last(seq, x) == SubSeq(seq, 1, Len(seq) - 1)

\* list.remove(x): drops the first occurrence, ValueError when there is none.
list_remove(seq, x) ==
    LET k == CHOOSE i \in DOMAIN seq :
                 seq[i] = x /\ \A j \in DOMAIN seq : seq[j] = x => i <= j
    IN  SubSeq(seq, 1, k - 1) \o SubSeq(seq, k + 1, Len(seq))

remove_result(name, seq) ==
    LET ed == events_dict
    IN  IF ed.exc # "None" THEN ed.exc
        ELSE IF name \notin DOMAIN ed.val THEN "NotFound"
        ELSE IF ed.val[name] \notin Range(seq) THEN "ValueError"
        ELSE "ok"

remove_event_result(evt_name) == remove_result(evt_name, _events)

remove_event(evt_name) ==
    /\ IF remove_event_result(evt_name) = "ok"
       THEN /\ _events' = list_remove(_events, events_dict.val[evt_name])
            /\ __dict__' = [__dict__ EXCEPT ![evt_name] = NoObject]
       ELSE UNCHANGED <<_events, __dict__>>
    /\ objects' = collect(objects, _events', _durations)
    /\ UNCHANGED <<cycle_time, _durations, store>>

remove_duration_result(duration_name) == remove_result(duration_name, _durations)

remove_duration(duration_name) ==
    /\ IF remove_duration_result(duration_name) = "ok"
       THEN /\ _durations' =
                  list_remove(_durations, events_dict.val[duration_name])
            /\ __dict__' = [__dict__ EXCEPT ![duration_name] = NoObject]
       ELSE UNCHANGED <<_durations, __dict__>>
    /\ objects' = collect(objects, _events, _durations')
    /\ UNCHANGED <<cycle_time, _events, store>>

add_duration_result(name, start_event, end_event, is_number) ==
    LET ed == events_dict
    IN  IF ed.exc # "None" THEN ed.exc
        ELSE IF name \in DOMAIN ed.val THEN "DuplicateName"
        ELSE IF start_event \notin DOMAIN ed.val THEN "NotFound"
        ELSE IF end_event \notin DOMAIN ed.val THEN "NotFound"
        ELSE IF objects[ed.val[start_event]].parameter_path
                # objects[ed.val[end_event]].parameter_path
             THEN "ParameterMismatch"
        ELSE Event_init_result(objects[ed.val[start_event]].parameter_path,
                               objects[ed.val[start_event]].component_index,
                               is_number)

\* add_duration entering the new duration among the events as well.
add_duration_as_event(name, start_event, end_event, t, is_number) ==
    LET res == add_duration_result(name, start_event, end_event, is_number)
        o == Len(objects) + 1
    IN  /\ IF res = "ok"
           THEN LET start == events_dict.val[start_event]
                    end == events_dict.val[end_event]
                    path == objects[start].parameter_path
                IN  /\ store' = [store EXCEPT ![path] = objects[start]._state]
                    /\ objects' = Append(objects,
                           NewDuration(name, start, end, t, store'[path]))
                    /\ _durations' = Append(_durations, o)
                    /\ _events' = Append(_events, o)
                    /\ __dict__' = [__dict__ EXCEPT ![name] = o]
           ELSE UNCHANGED <<objects, _events, _durations, __dict__, store>>
        /\ UNCHANGED cycle_time

add_duration(name, start_event, end_event, t, is_number) ==
    LET res == add_duration_result(name, start_event, end_event, is_number)
        o == Len(objects) + 1
    IN  /\ IF res \in {"ok", "TypeError"}
           THEN LET start == events_dict.val[start_event]
                    end == events_dict.val[end_event]
                    path == objects[start].parameter_path
                IN  /\ store' = IF Event_init_writes(path,
                                       objects[start].component_index)
                                THEN [store EXCEPT
                                        ![path] = objects[start]._state]
                                ELSE store
                    /\ IF res = "ok"
                       THEN /\ objects' = Append(objects,
                                   NewDuration(name, start, end, t, store'[path]))
                            /\ _durations' = Append(_durations, o)
                            /\ __dict__' = [__dict__ EXCEPT ![name] = o]
                       ELSE UNCHANGED <<objects, _durations, __dict__>>
           ELSE UNCHANGED <<objects, _durations, __dict__, store>>
        /\ UNCHANGED <<cycle_time, _events>>

\* add_dependency without the test for an entity already in the list.
add_dependency_result_unchecked(objs, o, dependency) == "ok"

\* Event.add_dependency on instance o of objs.
add_dependency_result(objs, o, dependency) ==
    IF dependency \in Range(objs[o]._dependencies)
    THEN "DuplicateDependency"
    ELSE "ok"

add_dependency(objs, o, dependency, factor) ==
    [objs EXCEPT ![o]._dependencies = Append(@, dependency),
                 ![o]._factors = Append(@, factor)]

\* Event.remove_dependency on instance o of objs: the test raises when the
\* dependency is in the list; when it is not, the list is called as if it
\* were a function, a TypeError.  No path reaches the two del statements.
remove_dependency_result(objs, o, dependency) ==
    IF dependency \in Range(objs[o]._dependencies)
    THEN "DependencyNotFound"
    ELSE "TypeError"

remove_dependency(objs, o, dependency) == objs

\* EventHandler.remove_event_dependency: the first test looks the name, a
\* string, up in the events view, a list of Event instances, none of which
\* equals a string; the call ends there whatever the name is.
remove_event_dependency_result(dependent_event, independent_events) ==
    IF events.exc # "None" THEN events.exc ELSE "NotFound"

remove_event_dependency_objects(dependent_event, independent_events) == objects

remove_event_dependency(dependent_event, independent_events) ==
    /\ objects' = remove_event_dependency_objects(dependent_event,
                                                  independent_events)
    /\ UNCHANGED <<cycle_time, _events, _durations, __dict__, store>>

\* The loop of add_event_dependency from pair k on: each round looks the
\* independent up in events_dict, read anew, and attaches it.  The instances
\* and the error the loop ends with.
RECURSIVE attach_loop(_, _, _, _, _)
attach_loop(objs, evt, independent_events, factors, k) ==
    IF k > Len(independent_events) THEN [objs |-> objs, res |-> "ok"]
    ELSE LET ed == events_dict_of(objs, cycle_time, _events, _durations)
         IN  IF ed.exc # "None" THEN [objs |-> objs, res |-> ed.exc]
             ELSE LET indep == ed.val[independent_events[k]]
                      r == add_dependency_result(objs, evt, indep)
                  IN  IF r # "ok" THEN [objs |-> objs, res |-> r]
                      ELSE attach_loop(
                               add_dependency(objs, evt, indep, factors[k]),
                               evt, independent_events, factors, k + 1)

default_factors(independent_events) == [k \in DOMAIN independent_events |-> 1]

\* add_event_dependency; given is FALSE for factors=None.
add_event_dependency_run(dependent_event, independent_events, given, factors) ==
    LET ed == events_dict
        fs == IF given THEN factors ELSE default_factors(independent_events)
    IN  IF ed.exc # "None" THEN [objs |-> objects, res |-> ed.exc]
        ELSE IF dependent_event \notin DOMAIN ed.val
             THEN [objs |-> objects, res |-> "NotFound"]
        ELSE IF \E k \in DOMAIN independent_events :
                    independent_events[k] \notin DOMAIN ed.val
             THEN [objs |-> objects, res |-> "NotFound"]
        ELSE IF Len(fs) # Len(independent_events)
             THEN [objs |-> objects, res |-> "LengthMismatch"]
        ELSE attach_loop(objects, ed.val[dependent_event],
                         independent_events, fs, 1)

RECURSIVE SumLen(_, _)
SumLen(objs, k) ==
    IF k = 0 THEN 0 ELSE Len(objs[k]._dependencies) + SumLen(objs, k - 1)

Edges(objs) == SumLen(objs, Len(objs))

add_event_dependency(dependent_event, independent_events, given, factors) ==
    LET run == add_event_dependency_run(
                   dependent_event, independent_events, given, factors)
    IN  /\ objects' = run.objs
        /\ UNCHANGED <<cycle_time, _events, _durations, __dict__, store>>

\* A setter that accepts every number.
time_setter_result_unguarded(o, is_number) ==
    IF ~is_number THEN "TypeError" ELSE "ok"

\* How Event.time (setter) ends on instance o.
time_setter_result(o, is_number) ==
    IF ~is_number THEN "TypeError"
    ELSE IF isIndependent(objects, o) THEN "ok"
    ELSE "CannotSetDependentTime"

\* The instances after it.
time_setter(o, t, is_number) ==
    IF time_setter_result(o, is_number) = "ok"
    THEN [objects EXCEPT ![o]._time = t]
    ELSE objects

set_time(name, t, is_number) ==
    /\ __dict__[name] # NoObject
    /\ objects' = time_setter(__dict__[name], t, is_number)
    /\ UNCHANGED <<cycle_time, _events, _durations, __dict__, store>>

set_cycle_time(c) ==
    /\ cycle_time' = c
    /\ UNCHANGED <<objects, _events, _durations, __dict__, store>>

\* The independent events, in the order of events, and the independent
\* durations of the handler with the instances objs and the cycle time c.
\* The events view whole, dependent events too.
all_events_of(objs, c) == events_of(objs, c, _events)

independent_events_of(objs, c) ==
    LET ev == events_of(objs, c, _events)
        independent(o) == isIndependent(objs, o)
    IN  IF ev.exc # "None" THEN Raise(ev.exc)
        ELSE Return(SelectSeq(ev.val, independent))

independent_events == independent_events_of(objects, cycle_time)

independent_durations_of(objs) ==
    LET independent(o) == isIndependent(objs, o)
    IN  SelectSeq(_durations, independent)

independent_durations == independent_durations_of(objects)

\* One (param, value) pair of the dict an event's parameters are; is_number
\* tells whether the value is an int or a float.
Item(param, value, is_number) ==
    [param |-> param, value |-> value, is_number |-> is_number]

\* One (name, value) pair of the handler's parameters: the value is a number
\* (number, time) or a dict (items).
NumberEntry(key, t) == [key |-> key, number |-> TRUE, time |-> t, items |-> <<>>]
DictEntry(key, items) == [key |-> key, number |-> FALSE, time |-> 0, items |-> items]

\* Event._parameters.
_parameters(objs, o) ==
    IF objs[o].cls = "Duration" THEN <<"time">> ELSE <<"time", "state">>

\* Event.parameters (getter).
Event_parameters(objs, c, o) ==
    LET value(param) ==
            IF param = "time" THEN Item(param, time_of(objs, c, o, {}), TRUE)
            ELSE Item(param, objs[o]._state, TRUE)
    IN  [k \in DOMAIN _parameters(objs, o) |-> value(_parameters(objs, o)[k])]

\* EventHandler.parameters (getter): the entries of the events, of the
\* durations, and cycle_time.
parameters ==
    IF independent_events.exc # "None" THEN Raise(independent_events.exc)
    ELSE LET named == independent_events.val \o independent_durations
         IN  Return([has_cycle_time |-> TRUE,
                     cycle_time |-> cycle_time,
                     entries |-> [k \in DOMAIN named |->
                         DictEntry(objects[named[k]].name,
                                   Event_parameters(objects, cycle_time,
                                                    named[k]))]])

\* The handler while parameters are assigned: cycle_time, the instances,
\* the external store.
Handler(c, objs, st) == [cycle_time |-> c, objects |-> objs, store |-> st]

\* setattr(evt, param, value) for the items of a dict from item k on, on the
\* independent instance o.
RECURSIVE setattr_loop(_, _, _, _)
setattr_loop(h, o, items, k) ==
    IF k > Len(items) THEN [h |-> h, res |-> "ok"]
    ELSE LET item == items[k]
             path == h.objects[o].parameter_path
         IN  IF \A j \in DOMAIN _parameters(h.objects, o) :
                    _parameters(h.objects, o)[j] # item.param
             THEN [h |-> h, res |-> "InvalidParameter"]
             ELSE IF item.param = "time"
             THEN IF ~item.is_number THEN [h |-> h, res |-> "TypeError"]
                  ELSE setattr_loop(
                           [h EXCEPT !.objects[o]._time = item.value],
                           o, items, k + 1)
             ELSE setattr_loop(
                      [h EXCEPT !.store[path] = item.value,
                                !.objects[o]._state = item.value],
                      o, items, k + 1)

\* Event.parameters (setter) on the independent instance o.
Event_parameters_setter(h, o, entry) ==
    IF entry.number
    THEN [h |-> [h EXCEPT !.objects[o]._time = entry.time], res |-> "ok"]
    ELSE setattr_loop(h, o, entry.items, 1)

\* One round of the loop of EventHandler.parameters (setter): only
\* AttributeError is caught, the KeyError of a name events_dict does not hold
\* passes through.
parameters_entry(h, entry) ==
    LET ed == events_dict_of(h.objects, h.cycle_time, _events, _durations)
    IN  IF ed.exc # "None" THEN [h |-> h, res |-> ed.exc]
        ELSE IF entry.key \notin DOMAIN ed.val THEN [h |-> h, res |-> "KeyError"]
        ELSE IF ~isIndependent(h.objects, ed.val[entry.key])
             THEN [h |-> h, res |-> "InvalidEvent"]
        ELSE Event_parameters_setter(h, ed.val[entry.key], entry)

\* The loop from entry k on; events_dict is read anew in each round.  (The
\* round's outcome r is drawn from a set of one element.)
RECURSIVE parameters_loop(_, _, _)
parameters_loop(h, entries, k) ==
    IF k > Len(entries) THEN [h |-> h, res |-> "ok"]
    ELSE CHOOSE out \in
             {IF r.res # "ok" THEN r ELSE parameters_loop(r.h, entries, k + 1) :
                  r \in {parameters_entry(h, entries[k])}} : TRUE

\* EventHandler.parameters (setter): cycle_time first, then the entries.
parameters_setter(params) ==
    parameters_loop(
        Handler(IF params.has_cycle_time THEN params.cycle_time ELSE cycle_time,
                objects, store),
        params.entries, 1)

set_parameters(params) ==
    \E r \in {parameters_setter(params)} :
        /\ cycle_time' = r.h.cycle_time
        /\ objects' = r.h.objects
        /\ store' = r.h.store
        /\ UNCHANGED <<_events, _durations, __dict__>>

\* Names are compared for equality only: a call names a name some instance
\* bears, or the first name none bears.
UsedNames == {objects[k].name : k \in DOMAIN objects} \ {Freed.name}
FirstUnused ==
    {NameOrder[k] : k \in {i \in DOMAIN NameOrder :
        /\ NameOrder[i] \notin UsedNames
        /\ \A j \in 1..(i - 1) : NameOrder[j] \in UsedNames}}
CallNames == UsedNames \cup FirstUnused
CallLists == {l \in IndependentLists : Range(l) \subseteq CallNames}

AnyState == CHOOSE x \in States : TRUE
AnyTime == CHOOSE t \in Times : TRUE
AnyPath == CHOOSE p \in UnitPaths : TRUE

\* The calls of one operation each, while the bounds leave room for what the
\* call may create.
MayCreate == Len(objects) < MaxObjects
MayAttach(l, max) == Edges(objects) + Len(l) <= max

AddEvent(paths, states) ==
    /\ MayCreate
    /\ \E name \in CallNames :
          \/ \E path \in paths, state \in states, t \in Times :
                add_event(name, path, state, t, None, TRUE)
          \/ add_event(name, InvalidPath, AnyState, AnyTime, None, TRUE)
          \/ add_event(name, AnyPath, AnyState, AnyTime, 0, TRUE)
          \/ \E path \in paths, state \in states :
                add_event(name, path, state, AnyTime, None, FALSE)

\* add_event on the path that holds a sequence: with a component_index and
\* the state of one component, or with a whole sequence as state.
AddComponentEvent ==
    /\ MayCreate
    /\ \E name \in CallNames :
          \/ \E ci \in ComponentIndices, state \in States :
                add_event(name, ComponentPath, state, AnyTime, ci, TRUE)
          \/ \E state \in SequenceStates, t \in Times :
                add_event(name, ComponentPath, state, t, None, TRUE)

RemoveEvent == \E evt_name \in CallNames : remove_event(evt_name)

AddDuration ==
    /\ MayCreate
    /\ Len(_durations) < MaxDurations
    /\ \E name \in CallNames, s \in CallNames, e \in CallNames :
          \/ \E t \in Times : add_duration(name, s, e, t, TRUE)
          \/ add_duration(name, s, e, AnyTime, FALSE)

RemoveDuration == \E duration_name \in CallNames : remove_duration(duration_name)

AddEventDependency(max) ==
    \E d \in CallNames, l \in CallLists :
        /\ MayAttach(l, max)
        /\ \/ add_event_dependency(d, l, FALSE, <<>>)
           \/ \E fs \in GivenFactors : add_event_dependency(d, l, TRUE, fs)

SetTime(times) ==
    \E name \in CallNames :
        \/ \E t \in times : set_time(name, t, TRUE)
        \/ set_time(name, AnyTime, FALSE)

SetCycleTime == \E c \in CycleTimes : set_cycle_time(c)

\* remove_dependency called on the instance of one name with the instance
\* of another.
RemoveDependency ==
    \E evt \in CallNames, dependency \in CallNames :
        /\ __dict__[evt] # NoObject
        /\ __dict__[dependency] # NoObject
        /\ objects' = remove_dependency(objects, __dict__[evt],
                                        __dict__[dependency])
        /\ UNCHANGED <<cycle_time, _events, _durations, __dict__, store>>

RemoveEventDependency ==
    \E d \in CallNames, l \in {x \in CallLists : Len(x) = 1} :
        remove_event_dependency(d, l)

\* Assigning parameters: what was just read, one entry, cycle_time with an
\* entry, two entries.
NoCycleTime(entries) ==
    [has_cycle_time |-> FALSE, cycle_time |-> 0, entries |-> entries]
WithCycleTime(c, entries) ==
    [has_cycle_time |-> TRUE, cycle_time |-> c, entries |-> entries]

ParametersAssigned ==
    (IF parameters.exc = "None" THEN {parameters.val} ELSE {})
    \cup {NoCycleTime(<<NumberEntry(name, AnyTime)>>) : name \in CallNames}
    \cup {NoCycleTime(<<NumberEntry(name, AnyTime), NumberEntry(other, AnyTime)>>) :
             name \in CallNames, other \in CallNames}
    \cup {WithCycleTime(DefaultCycleTime, <<NumberEntry(name, AnyTime)>>) :
             name \in CallNames}
    \cup {NoCycleTime(<<DictEntry(name, <<Item("state", AnyState, TRUE)>>)>>) :
             name \in CallNames}
    \cup {NoCycleTime(<<DictEntry(name, <<Item("time", AnyTime, FALSE)>>)>>) :
             name \in CallNames}
    \cup {NoCycleTime(<<DictEntry(name, <<Item("name", AnyTime, TRUE)>>)>>) :
             name \in CallNames}

SetParameters == \E params \in ParametersAssigned : set_parameters(params)

\* Every operation; the events on one parameter path, with one state.
OnePath == {AnyPath}
OneState == {AnyState}

Next ==
    \/ AddEvent(OnePath, OneState)
    \/ RemoveEvent
    \/ AddDuration
    \/ RemoveDuration
    \/ AddEventDependency(MaxEdges)
    \/ SetTime(Times)
    \/ SetCycleTime

Spec == Init /\ [][Next]_vars

\* The operations that decide an event's time, with room for two edges.
NextTime ==
    \/ AddEvent(OnePath, OneState)
    \/ AddDuration
    \/ AddEventDependency(MaxTimeEdges)
    \/ SetTime(Times)
    \/ SetCycleTime

SpecTime == Init /\ [][NextTime]_vars

\* The operations the timelines are built from, over every path and state.
NextTimeline ==
    \/ AddEvent(UnitPaths, States)
    \/ AddEventDependency(MaxEdges)
    \/ SetTime(Times)
    \/ SetCycleTime

SpecTimeline == Init /\ [][NextTimeline]_vars

\* Adding and removing only, over every path and state.
NextRegistry ==
    \/ AddEvent(UnitPaths, States)
    \/ RemoveEvent
    \/ AddDuration
    \/ RemoveDuration

SpecRegistry == Init /\ [][NextRegistry]_vars

\* Assigning times the events were not created with, to independent and to
\* dependent events.
NextSetTime ==
    \/ AddEvent(OnePath, OneState)
    \/ AddEventDependency(MaxTimeEdges)
    \/ SetTime(NewTimes)

SpecSetTime == Init /\ [][NextSetTime]_vars

\* Reading and assigning parameters.
NextParameters ==
    \/ AddEvent(OnePath, OneState)
    \/ AddDuration
    \/ AddEventDependency(MaxEdges)
    \/ SetParameters

SpecParameters == Init /\ [][NextParameters]_vars

\* Attaching and detaching dependencies.
NextDependency ==
    \/ AddEvent(OnePath, OneState)
    \/ AddDuration
    \/ RemoveEvent
    \/ AddEventDependency(MaxTimeEdges)
    \/ RemoveDependency
    \/ RemoveEventDependency

SpecDependency == Init /\ [][NextDependency]_vars

\* Events on scalar and on component-wise parameters.
NextComponent ==
    \/ AddEvent(OnePath, States)
    \/ AddComponentEvent
    \/ RemoveEvent

SpecComponent == Init /\ [][NextComponent]_vars

\* Events on paths of one and of two segments, for the views by performer.
NextPerformer ==
    \/ AddEvent(UnitPaths \cup {SingleSegmentPath}, OneState)
    \/ RemoveEvent
    \/ SetCycleTime

SpecPerformer == Init /\ [][NextPerformer]_vars

\* ------------------------------------------------------------- properties
Registered == Range(_events) \cup Range(_durations)
Resolves(o) == time(o) # RecursionError
Dependent(o) == ~isIndependent(objects, o)

\* factor_1 * time(dependency_1) + ... + factor_k * time(dependency_k) of o.
RECURSIVE WeightedSum(_, _)
WeightedSum(o, k) ==
    IF k = 0 THEN 0
    ELSE objects[o]._factors[k] * time(objects[o]._dependencies[k])
         + WeightedSum(o, k - 1)

RawTime(o) ==
    IF Dependent(o) THEN WeightedSum(o, Len(objects[o]._dependencies))
    ELSE objects[o]._time

Increasing(seq) == \A k \in 1..(Len(seq) - 1) : seq[k] < seq[k + 1]

\* C2: section_times is the ascending list of the distinct values among 0,
\* cycle_time and the resolved times of the events: it starts at 0, ends at
\* cycle_time, increases strictly and has at least two entries.
C2_SectionTimes ==
    section_times.exc = "None" =>
        LET st == section_times.val
            expected == {0, cycle_time} \cup {time(o) : o \in Range(_events)}
        IN  /\ Range(st) = expected
            /\ Len(st) = Cardinality(expected)
            /\ Increasing(st)
            /\ Len(st) >= 2
            /\ st[1] = 0
            /\ st[Len(st)] = cycle_time
            /\ _events = <<>> => st = <<0, cycle_time>>

\* Two events at one time, an event at 0 and an event strictly inside the
\* cycle.
C2_Witness ==
    /\ section_times.exc = "None"
    /\ \E a, b \in Range(_events) : a # b /\ time(a) = time(b)
    /\ \E a \in Range(_events) : time(a) = 0
    /\ \E a \in Range(_events) : 0 < time(a)

EventsOn(p) == {o \in Range(_events) : objects[o].parameter_path = p}
DistinctTimes(E) == \A a, b \in E : a # b => time(a) # time(b)
Min(S) == CHOOSE x \in S : \A y \in S : x <= y
NextTimeAfter(E, e) ==
    LET later == {time(f) : f \in {g \in E : time(g) > time(e)}}
    IN  IF later = {} THEN cycle_time ELSE Min(later)
LastOf(E) == CHOOSE e \in E : \A f \in E : time(f) <= time(e)
FirstTime(E) == Min({time(e) : e \in E})
ExpectedSections(E) ==
    {Section(time(e), NextTimeAfter(E, e), objects[e]._state) : e \in E}
    \cup (IF FirstTime(E) # 0
          THEN {Section(0, FirstTime(E), objects[LastOf(E)]._state)}
          ELSE {})

\* C3: the timeline of a path whose events resolve to distinct times
\* t_1 < ... < t_k holds exactly the sections [t_i, t_i+1) with the state of
\* event i, [t_k, cycle_time) with the state of event k and, only if
\* t_1 # 0, [0, t_1) with the state of event k.
C3_TimelineSections ==
    parameter_timelines.exc = "None" =>
        /\ DOMAIN parameter_timelines.val
              = {p \in section_dependent_parameters : EventsOn(p) # {}}
        /\ \A p \in DOMAIN parameter_timelines.val :
              DistinctTimes(EventsOn(p)) =>
                  LET tl == parameter_timelines.val[p]
                  IN  /\ Range(tl) = ExpectedSections(EventsOn(p))
                      /\ Len(tl) = Cardinality(ExpectedSections(EventsOn(p)))

\* Three events on one path at distinct times, the first not at 0, the
\* last with another state than the first.
C3_Witness ==
    /\ parameter_timelines.exc = "None"
    /\ \E p \in DOMAIN parameter_timelines.val :
          LET E == EventsOn(p)
          IN  /\ Cardinality(E) = 3
              /\ DistinctTimes(E)
              /\ FirstTime(E) # 0
              /\ \E e \in E :
                    /\ time(e) = FirstTime(E)
                    /\ objects[e]._state # objects[LastOf(E)]._state

Covering(tl, t) == {k \in DOMAIN tl : tl[k].start <= t /\ t < tl[k].end}

\* C4: for every path some event changes and every time t of
\* [0, cycle_time), exactly one section of the path's timeline contains t.
C4_SectionsPartitionCycle ==
    parameter_timelines.exc = "None" =>
        \A p \in DOMAIN parameter_timelines.val :
            \A t \in 0..(cycle_time - 1) :
                Cardinality(Covering(parameter_timelines.val[p], t)) = 1

\* Two events of one path at one time, one of them dependent, and a third
\* event of the path at another time, inserted in another order than the
\* order of their times.
C4_Witness ==
    /\ parameter_timelines.exc = "None"
    /\ \E p \in DOMAIN parameter_timelines.val :
          /\ \E a, b \in EventsOn(p) :
                a # b /\ time(a) = time(b) /\ Dependent(b)
          /\ \E j, k \in DOMAIN _events :
                /\ j < k
                /\ objects[_events[j]].parameter_path = p
                /\ objects[_events[k]].parameter_path = p
                /\ time(_events[j]) > time(_events[k])

DependentTimeIsWeightedSum ==
    \A o \in Registered :
        Dependent(o) /\ Resolves(o) =>
            time(o) = WeightedSum(o, Len(objects[o]._dependencies)) % cycle_time

DefaultFactorsAreOne ==
    \A d \in Names, l \in IndependentLists :
        LET run == add_event_dependency_run(d, l, FALSE, <<>>)
        IN  run.res = "ok" =>
                LET o == events_dict.val[d]
                IN  run.objs[o]._factors
                        = objects[o]._factors \o [k \in DOMAIN l |-> 1]

\* C5: a dependent's time resolves to the sum of factor * resolved time over
\* its dependencies, modulo cycle_time, in every state, so also in the state
\* right after a dependency's time or cycle_time changed; the factors
\* add_event_dependency attaches when it is given none are all 1.
C5_DependentTime == DependentTimeIsWeightedSum /\ DefaultFactorsAreOne

\* A dependent with two dependencies at different times and the factors 1
\* and -1, and a dependent whose factors are the default ones.
C5_Witness ==
    \E o \in Registered :
        /\ Resolves(o)
        /\ Len(objects[o]._dependencies) = 2
        /\ objects[o]._factors = <<1, -1>>
        /\ time(objects[o]._dependencies[1]) # time(objects[o]._dependencies[2])
        /\ \E d \in Names, l \in IndependentLists :
              /\ Len(l) = 2
              /\ add_event_dependency_run(d, l, FALSE, <<>>).res = "ok"

\* What assigning a time to a registered entity gives, the value assigned
\* being a number or not as is_numbers says.
Assignment(is_numbers) ==
    \A name \in Names :
        __dict__[name] # NoObject =>
            \A t \in Times \cup NewTimes, is_number \in is_numbers :
                LET o == __dict__[name]
                    after == time_setter(o, t, is_number)
                IN  IF Dependent(o)
                    THEN /\ time_setter_result(o, is_number)
                              = "CannotSetDependentTime"
                         /\ after = objects
                         /\ time_of(after, cycle_time, o, {}) = time(o)
                    ELSE /\ time_setter_result(o, is_number) = "ok"
                         /\ after[o]._time = t
                         /\ time_of(after, cycle_time, o, {}) = t % cycle_time
                         /\ \A x \in DOMAIN objects \ {o} : after[x] = objects[x]

\* C6: assigning a number as the time of an event that has a dependency
\* fails with CannotSetDependentTime and leaves every instance, so the
\* event's stored time, dependencies and resolved time, as it was; assigning
\* a number as the time of an event without dependencies succeeds, stores
\* the number and makes the event resolve to it modulo cycle_time.
C6_NumberAssigned == Assignment({TRUE})

\* An independent event holding an assigned time and a resolving dependent
\* event.
C6_Witness ==
    /\ \E o \in Registered : ~Dependent(o) /\ objects[o]._time \in NewTimes
    /\ \E o \in Registered :
          /\ Dependent(o) /\ Resolves(o)
          /\ \E name \in Names : __dict__[name] = o

\* C6 as stated, for every value assigned: a value that is not a number
\* ends in TypeError, on a dependent and on an independent event.
C6_AnyValueAssigned == Assignment(BOOLEAN)

RegisteredNames == {objects[o].name : o \in Registered}

\* C7 as stated: add_event and add_duration with a registered name end in
\* DuplicateName.
C7_DuplicateNameRejected ==
    \A n \in RegisteredNames :
        /\ add_event_result(n, AnyPath, None, TRUE) = "DuplicateName"
        /\ \A s, e \in Names :
              add_duration_result(n, s, e, TRUE) = "DuplicateName"

\* C8: over the events and the durations together no name is borne twice,
\* and events_dict has one entry for each of them.
C8_NamesUnique ==
    LET all == _events \o _durations
    IN  /\ \A j, k \in DOMAIN all :
              j # k => objects[all[j]].name # objects[all[k]].name
        /\ events_dict.exc = "None"
        /\ Cardinality(DOMAIN events_dict.val) = Len(all)
        /\ \A k \in DOMAIN all :
              /\ objects[all[k]].name \in DOMAIN events_dict.val
              /\ events_dict.val[objects[all[k]].name] = all[k]

\* An event and a duration registered after something was removed.
C8_Witness ==
    /\ _events # <<>>
    /\ _durations # <<>>
    /\ \E k \in DOMAIN objects : objects[k] = Freed

\* C9 as stated: remove_event and remove_duration with a name that is not
\* registered end in NotFound.
C9_UnregisteredNameNotFound ==
    \A n \in Names \ RegisteredNames :
        /\ remove_event_result(n) = "NotFound"
        /\ remove_duration_result(n) = "NotFound"

Without(seq, o) ==
    LET other(x) == x # o
    IN  SelectSeq(seq, other)

RemoveEventFrame ==
    \A n \in Names :
        /\ remove_event_result(n) = "ok"
        /\ _events' # _events
        /\ remove_event(n)
        => LET o == events_dict.val[n]
               after == events_of(objects', cycle_time', _events')
           IN  /\ after.exc = "None"
               /\ \A k \in DOMAIN after.val : objects'[after.val[k]].name # n
               /\ events_dict'.exc = "None"
               /\ n \notin DOMAIN events_dict'.val
               /\ after.val = Without(events.val, o)
               /\ _events' = Without(_events, o)
               /\ _durations' = _durations
               /\ \A x \in Registered \ {o} :
                     /\ objects'[x]._state = objects[x]._state
                     /\ objects'[x]._time = objects[x]._time
                     /\ time_of(objects', cycle_time', x, {}) = time(x)
                     /\ events_dict'.val[objects[x].name] = x
               /\ add_event_result(n, AnyPath, None, TRUE)' = "ok"

\* C10: a remove_event that succeeds takes that event, and nothing else,
\* out of events and events_dict; the other events and the durations keep
\* their time, state and order, and add_event with the name succeeds next.
C10_RemoveEvent == [][RemoveEventFrame]_vars

\* An event was removed while an event before it and a duration stay.
C10_Witness ==
    /\ \E k \in DOMAIN objects : objects[k] = Freed
    /\ _events # <<>>
    /\ _durations # <<>>
    /\ Cardinality(RegisteredNames) < Cardinality(Names)

\* C11 as stated: assigning the parameters just read succeeds and leaves
\* cycle_time and every entity's stored time, state, dependencies and
\* factors as they were, so that every time resolves as before under every
\* cycle time.
C11_ParametersRoundTrip ==
    parameters.exc = "None" =>
        LET r == parameters_setter(parameters.val)
        IN  /\ r.res = "ok"
            /\ r.h.cycle_time = cycle_time
            /\ \A o \in Registered :
                  /\ r.h.objects[o]._time = objects[o]._time
                  /\ r.h.objects[o]._state = objects[o]._state
                  /\ r.h.objects[o]._dependencies = objects[o]._dependencies
                  /\ r.h.objects[o]._factors = objects[o]._factors
                  /\ \A c \in CycleTimes :
                        time_of(r.h.objects, c, o, {}) = time_of(objects, c, o, {})

\* The calls of add_event_dependency: without factors and with given ones.
DependencyRuns(d, l) ==
    {add_event_dependency_run(d, l, FALSE, <<>>)}
    \cup {add_event_dependency_run(d, l, TRUE, fs) : fs \in GivenFactors}

\* C12 as stated: an add_event_dependency that fails with NotFound,
\* LengthMismatch or DuplicateDependency leaves the dependencies and factors
\* of every instance as they were.
C12_DependencyAllOrNothing ==
    \A d \in Names, l \in IndependentLists :
        \A run \in DependencyRuns(d, l) :
            run.res \in {"NotFound", "LengthMismatch", "DuplicateDependency"}
                => run.objs = objects

RECURSIVE DependsOn(_, _)
\* The instances the instances of from reach along dependency edges.
DependsOn(objs, from) ==
    LET more == from \cup UNION {Range(objs[o]._dependencies) : o \in from}
    IN  IF more = from THEN from ELSE DependsOn(objs, more)

\* C13 as stated: no entity is reachable from itself along dependency edges.
C13_DependenciesAcyclic ==
    \A o \in Registered :
        o \notin DependsOn(objects, Range(objects[o]._dependencies))

\* C14 as stated: the dependencies of every registered entity and the
\* endpoints of every registered duration are registered.
C14_DependenciesRegistered ==
    /\ \A o \in Registered : Range(objects[o]._dependencies) \subseteq Registered
    /\ \A o \in Range(_durations) :
          {objects[o].start_event, objects[o].end_event} \subseteq Registered

\* The pairs of o without those of the dependency dep.
PairsWithout(o, dep) ==
    LET keep == {k \in DOMAIN objects[o]._dependencies :
                   objects[o]._dependencies[k] # dep}
        at(j) == CHOOSE k \in keep : Cardinality({i \in keep : i <= k}) = j
    IN  [objects EXCEPT
           ![o]._dependencies =
               [j \in 1..Cardinality(keep) |-> objects[o]._dependencies[at(j)]],
           ![o]._factors =
               [j \in 1..Cardinality(keep) |-> objects[o]._factors[at(j)]]]

\* C15 as stated: remove_dependency of one of the dependencies succeeds and
\* removes that pair, keeping the others in order; of anything else it fails
\* with DependencyNotFound and changes nothing.
C15_RemoveDependency ==
    \A o \in Registered, dep \in Registered :
        IF dep \in Range(objects[o]._dependencies)
        THEN /\ remove_dependency_result(objects, o, dep) = "ok"
             /\ remove_dependency(objects, o, dep) = PairsWithout(o, dep)
        ELSE /\ remove_dependency_result(objects, o, dep) = "DependencyNotFound"
             /\ remove_dependency(objects, o, dep) = objects

NoDuplicates(seq) == \A j, k \in DOMAIN seq : seq[j] = seq[k] => j = k

\* What the run of add_event_dependency(d, l, fs) leaves: the lists of the
\* dependent event grown by the first n pairs of l and fs, all n when the
\* run succeeds, and no other instance touched.
PairsAppended(d, l, fs) ==
    LET ed == events_dict.val
        run == add_event_dependency_run(d, l, TRUE, fs)
        evt == ed[d]
        n == Len(run.objs[evt]._dependencies) - Len(objects[evt]._dependencies)
    IN  /\ n \in 0..Len(l)
        /\ run.res = "ok" => n = Len(l)
        /\ run.objs[evt]._dependencies =
               objects[evt]._dependencies \o [k \in 1..n |-> ed[l[k]]]
        /\ run.objs[evt]._factors =
               objects[evt]._factors \o [k \in 1..n |-> fs[k]]
        /\ \A o \in DOMAIN objects : o # evt => run.objs[o] = objects[o]

\* C16: the dependencies of an event hold no entity twice and are as many
\* as its factors; a run of add_event_dependency appends the dependencies it
\* attaches and the factors supplied with them pairwise, in order; and
\* add_dependency of an entity already in the list fails with
\* DuplicateDependency.
C16_DependenciesPaired ==
    /\ \A o \in DOMAIN objects :
          /\ NoDuplicates(objects[o]._dependencies)
          /\ Len(objects[o]._dependencies) = Len(objects[o]._factors)
          /\ \A dep \in Range(objects[o]._dependencies) :
                add_dependency_result(objects, o, dep) = "DuplicateDependency"
    /\ events_dict.exc = "None" =>
          \A d \in DOMAIN events_dict.val, l \in IndependentLists :
              Range(l) \subseteq DOMAIN events_dict.val =>
                  \A fs \in GivenFactors : PairsAppended(d, l, fs)

C16_Witness ==
    \E o \in Registered :
        /\ Resolves(o)
        /\ Len(objects[o]._dependencies) = 2
        /\ objects[o]._factors = <<1, -1>>
        /\ add_dependency_result(objects, o, objects[o]._dependencies[2])
               = "DuplicateDependency"

\* The place of instance o in the sequence seq.
IndexOf(seq, o) == CHOOSE k \in DOMAIN seq : seq[k] = o

\* C17: while the times resolve, the events view lists every registered
\* event once, by resolved time ascending, events of equal time in the order
\* of their registration.
C17_EventsOrdered ==
    events.exc = "None" =>
        LET ev == events.val
        IN  /\ Len(ev) = Len(_events)
            /\ Range(ev) = Range(_events)
            /\ NoDuplicates(ev)
            /\ \A j, k \in DOMAIN ev :
                  j < k =>
                      /\ time(ev[j]) <= time(ev[k])
                      /\ time(ev[j]) = time(ev[k])
                            => IndexOf(_events, ev[j]) < IndexOf(_events, ev[k])

C17_Witness ==
    /\ events.exc = "None"
    /\ events.val # _events
    /\ \E j, k \in DOMAIN events.val :
          /\ j < k
          /\ time(events.val[j]) = time(events.val[k])
    /\ \E o \in Range(_events) : Dependent(o)

\* The outcome the claim gives add_duration for a name not yet registered.
AddDurationExpected(start_event, end_event) ==
    IF {start_event, end_event} \subseteq RegisteredNames
    THEN IF objects[__dict__[start_event]].parameter_path
            # objects[__dict__[end_event]].parameter_path
         THEN "ParameterMismatch"
         ELSE "ok"
    ELSE "NotFound"

\* C18 as stated: add_duration of a new name fails with NotFound when an
\* endpoint name is not registered and with ParameterMismatch when the
\* endpoints differ in parameter path, and succeeds otherwise; every
\* registered duration has the parameter path of both its endpoints.
C18_AddDuration ==
    /\ \A name \in FirstUnused, start_event \in CallNames, end_event \in CallNames :
          add_duration_result(name, start_event, end_event, TRUE)
              = AddDurationExpected(start_event, end_event)
    /\ \A d \in Range(_durations) :
          /\ objects[d].parameter_path
                = objects[objects[d].start_event].parameter_path
          /\ objects[d].parameter_path
                = objects[objects[d].end_event].parameter_path

\* C19 as stated: assigning parameters under a key that is not the name of
\* an independent event or duration, a dependent's name or no registered
\* name at all, fails with InvalidEvent.
C19_InvalidKeyRejected ==
    \A key \in CallNames :
        (\/ key \notin RegisteredNames
         \/ \E o \in Registered : objects[o].name = key /\ Dependent(o))
        => parameters_setter(NoCycleTime(<<NumberEntry(key, AnyTime)>>)).res
              = "InvalidEvent"

\* The registered entities without dependencies.
Independent == {o \in Registered : objects[o]._dependencies = <<>>}

\* C20: while the view resolves, parameters holds cycle_time and one entry
\* for each event and each duration without dependencies, under its name,
\* and no other entry; an event's entry is its resolved time and its state,
\* a duration's entry its time.
C20_ParametersView ==
    parameters.exc = "None" =>
        LET p == parameters.val
        IN  /\ p.has_cycle_time
            /\ p.cycle_time = cycle_time
            /\ Len(p.entries) = Cardinality(Independent)
            /\ {p.entries[k].key : k \in DOMAIN p.entries}
                  = {objects[o].name : o \in Independent}
            /\ \A k \in DOMAIN p.entries :
                  \E o \in Independent :
                      /\ objects[o].name = p.entries[k].key
                      /\ ~p.entries[k].number
                      /\ p.entries[k].items =
                            IF o \in Range(_durations)
                            THEN <<Item("time", time(o), TRUE)>>
                            ELSE <<Item("time", time(o), TRUE),
                                   Item("state", objects[o]._state, TRUE)>>

C20_Witness ==
    /\ parameters.exc = "None"
    /\ \E o \in Range(_events) : o \in Independent
    /\ \E o \in Range(_events) : Dependent(o)
    /\ \E o \in Range(_durations) : o \in Independent

\* C21 as stated: add_event of a new name fails with InvalidParameter for a
\* path the external model does not hold, and with IndexOutOfRange for a
\* component_index not below the length of the sequence stored at the path.
C21_InvalidPathOrIndexRejected ==
    \A name \in FirstUnused :
        /\ add_event_result(name, InvalidPath, None, TRUE) = "InvalidParameter"
        /\ \A ci \in ComponentIndices :
              ci >= Len(store[ComponentPath]) =>
                  add_event_result(name, ComponentPath, ci, TRUE)
                      = "IndexOutOfRange"

\* C22 as stated: the state recorded on each registered event is the value
\* the external store holds at the event's parameter path.
C22_RecordedStateIsStored ==
    \A o \in Range(_events) :
        objects[o]._state = store[objects[o].parameter_path]

\* C22, amended: a successful add_event writes the given state through to
\* the store at the event's path and to no other path, and every registered
\* event records a state it was given: the store holds the state written
\* last, the events on the path keep their own.
C22_StateWrittenThrough ==
    /\ \A name \in FirstUnused, path \in UnitPaths, state \in States :
          add_event_result(name, path, None, TRUE) = "ok" =>
              LET st == add_event_store(name, path, state, None, TRUE)
              IN  /\ st[path] = state
                  /\ NewEvent(name, path, None, st[path], AnyTime)._state = state
                  /\ \A p \in DOMAIN store : p # path => st[p] = store[p]
    /\ \A o \in Range(_events) : objects[o]._state \in States

C22_Witness ==
    \E o \in Range(_events), n \in Range(_events) :
        /\ o < n
        /\ objects[o].parameter_path = objects[n].parameter_path
        /\ objects[o]._state # objects[n]._state
        /\ store[objects[n].parameter_path] = objects[n]._state

\* C26 as stated: add_event of a new name with a component_index within the
\* sequence stored at the path succeeds and replaces that element of the
\* sequence by the state, the others kept.
C26_ComponentStateWritten ==
    \A name \in FirstUnused, ci \in ComponentIndices, state \in States :
        ci < Len(store[ComponentPath]) =>
            /\ add_event_result(name, ComponentPath, ci, TRUE) = "ok"
            /\ add_event_store(name, ComponentPath, state, ci, TRUE)
                  = [store EXCEPT ![ComponentPath][ci + 1] = state]

\* C30 as stated: an add_event that fails leaves the external store as it
\* was.
C30_FailedAddEventKeepsStore ==
    \A name \in CallNames, path \in UnitPaths \cup {InvalidPath},
       state \in States, ci \in {None, 0}, is_number \in BOOLEAN :
        add_event_result(name, path, ci, is_number) # "ok" =>
            add_event_store(name, path, state, ci, is_number) = store

\* The assignments one key of which is rejected: after cycle_time, or after
\* the time of another entity.
RejectedAssignments ==
    {WithCycleTime(c, <<NumberEntry(key, t)>>) :
        c \in CycleTimes, key \in CallNames, t \in Times}
    \cup {NoCycleTime(<<NumberEntry(name, t), NumberEntry(key, t)>>) :
             name \in CallNames, key \in CallNames, t \in Times}

\* C23 as stated: an assignment of parameters that fails on a rejected key
\* leaves cycle_time and every stored time and state as they were.
C23_ParametersAllOrNothing ==
    \A params \in RejectedAssignments :
        \A r \in {parameters_setter(params)} :
            r.res \in {"InvalidEvent", "KeyError"} =>
                r.h = Handler(cycle_time, objects, store)

\* C24 as stated: while the names resolve, remove_event of a duration's
\* name and remove_duration of an event's name fail with NotFound.
C24_WrongCollectionNotFound ==
    events_dict.exc = "None" =>
        /\ \A d \in Range(_durations) :
              remove_event_result(objects[d].name) = "NotFound"
        /\ \A e \in Range(_events) :
              remove_duration_result(objects[e].name) = "NotFound"

\* C25 as stated: while the times resolve, remove_event_dependency of a
\* registered event and dependencies of it succeeds and drops their pairs:
\* with its only dependency removed the event is independent again.
C25_RemoveEventDependency ==
    events.exc = "None" =>
        \A o \in Range(_events) :
            Len(objects[o]._dependencies) = 1 =>
                LET d == objects[o].name
                    l == <<objects[objects[o]._dependencies[1]].name>>
                IN  /\ remove_event_dependency_result(d, l) = "ok"
                    /\ isIndependent(remove_event_dependency_objects(d, l), o)

\* C27 as stated: while the times resolve, performer_timelines is produced
\* without error and holds the timeline of every parameter path an event
\* targets under the path's performer and its last segment, and nothing
\* else.
C27_PerformerTimelines ==
    events.exc = "None" =>
        /\ performer_timelines.exc = "None"
        /\ \A path \in event_parameters :
              LET perf == performer(path)
                  attr == path[Len(path)]
              IN  /\ perf \in DOMAIN performer_timelines.val
                  /\ attr \in DOMAIN performer_timelines.val[perf]
                  /\ performer_timelines.val[perf][attr]
                        = parameter_timelines.val[path]
        /\ \A perf \in DOMAIN performer_timelines.val :
              \A attr \in DOMAIN performer_timelines.val[perf] :
                  \E path \in event_parameters :
                      perf = performer(path) /\ attr = path[Len(path)]

\* The stored, un-reduced time of o: its own when it is independent, else
\* the sum of factor * un-reduced time over its dependencies.
RECURSIVE UnreducedTime(_)
UnreducedTime(o) ==
    IF isIndependent(objects, o) THEN objects[o]._time
    ELSE LET deps == objects[o]._dependencies
             terms == [k \in DOMAIN deps |-> UnreducedTime(deps[k])]
         IN  dot(terms, objects[o]._factors)

ScheduleViews ==
    <<events,
      [o \in Range(_events) |-> <<time(o), objects[o]._state>>],
      event_times, section_times, n_sections, parameter_timelines>>

\* The sections of the events evts of one path, read from the instances
\* objs under the cycle time c.
SectionsOf(objs, c, evts) ==
    LET n == Len(evts)
        t(k) == time_of(objs, c, evts[k], {})
        inner == [k \in 1..(n - 1) |-> Section(t(k), t(k + 1), objs[evts[k]]._state)]
        last == <<Section(t(n), c, objs[evts[n]]._state)>>
        wrap == IF t(1) # 0
                THEN <<Section(0, t(1), objs[evts[n]]._state)>>
                ELSE <<>>
    IN  inner \o last \o wrap

\* The schedule views read from the instances objs, the cycle time c and
\* the list of events evts.
ViewsOf(objs, c, evts) ==
    LET ev == events_of(objs, c, evts)
        failed == ev.exc # "None"
        times == sort({time_of(objs, c, o, {}) : o \in Range(evts)})
        from0 == IF times[1] # 0 THEN <<0>> \o times ELSE times
        padded == IF Len(times) = 0 THEN <<0, c>>
                  ELSE IF from0[Len(from0)] # c THEN Append(from0, c)
                  ELSE from0
        on(path) == LET targets(o) == objs[o].parameter_path = path
                    IN  SelectSeq(ev.val, targets)
    IN  <<ev,
          [o \in Range(evts) |-> <<time_of(objs, c, o, {}), objs[o]._state>>],
          IF failed THEN Raise(ev.exc) ELSE Return(times),
          IF failed THEN Raise(ev.exc) ELSE Return(padded),
          IF failed THEN Raise(ev.exc) ELSE Return(Len(padded) - 1),
          IF failed THEN Raise(ev.exc)
          ELSE Return([path \in {objs[o].parameter_path : o \in Range(evts)} |->
                         SectionsOf(objs, c, on(path))])>>

\* The durations some event depends on, directly or through others.
DurationsInUse ==
    UNION {DependsOn(objects, Range(objects[o]._dependencies)) :
              o \in Range(_events)}

ViewsKept ==
    ViewsOf(objects', cycle_time', _events')
        = ViewsOf(objects, cycle_time, _events)

DurationFrame ==
    /\ _durations' # _durations => ViewsKept
    /\ \A d \in Range(_durations) \ DurationsInUse :
          (/\ d \in DOMAIN objects'
           /\ objects'[d]._time # objects[d]._time
           /\ objects' = [objects EXCEPT ![d]._time = objects'[d]._time])
          => ViewsKept

\* C29: the schedule views are read from the instances, the cycle time and
\* the list of events alone; a step that adds or removes a duration leaves
\* them as they were, and so does a change of the time of a duration no
\* event depends on.
C29_DurationsOutsideSchedule ==
    /\ [](ScheduleViews = ViewsOf(objects, cycle_time, _events))
    /\ [][DurationFrame]_vars

\* A duration is registered and an event depends on it.
C29_Witness ==
    \E d \in Range(_durations), o \in Range(_events) :
        /\ d \in Range(objects[o]._dependencies)
        /\ Resolves(o)
====
